---- MODULE Spec2Model ----
(***************************************************************************)
(* The pasteboard access layer of cacao (src/pasteboard/mod.rs): a handle  *)
(* `Pasteboard` to a server-side NSPasteboard, its write operations        *)
(* (copy_text, copy_clipboard, copy_files, clear_contents,                 *)
(* release_globally) and its one read operation (get_file_urls).           *)
(*                                                                         *)
(* Every method of the wrapper is one message send to the pasteboard       *)
(* server.  The server side is modelled as the in-memory store those       *)
(* messages act on: per pasteboard name a sequence of pasteboard items,    *)
(* each item a mapping from type identifier to the stored string.  The     *)
(* server is assumed to accept every write; the only fault modelled is the *)
(* null result of the read call, which get_file_urls tests for.            *)
(***************************************************************************)
EXTENDS Integers, Sequences, FiniteSets, TLC

(* ---------------------------------------------------------------- bounds *)
MaxPaths   == 2   \* longest path list handed to copy_files
MaxItems   == 2   \* most items kept on one pasteboard
MaxUnique  == 2   \* most pasteboards allocated by unique()
MaxHandles == 2   \* handles alive in the process (SpecShared)
MaxSharedItems == 1   \* most items kept on one pasteboard in SpecShared

(* ---------------------------------------------------------- input values *)
Texts     == {"", "https://example.com/"}
FilePaths == {"/tmp/a.txt", "/tmp/b.txt"}
PathLists == UNION {[1..n -> FilePaths] : n \in 0..MaxPaths}

(* ------------------------------------------------------------------ state *)
VARIABLES
    handles,     \* handle -> the server name of the pasteboard it wraps
    origin,      \* handle -> the constructor call that made it
    store,       \* server name -> the items of that pasteboard
    nextUnique,  \* how many unique names the server has given out
    last         \* the call made last: operation, handle, arguments, result

vars == <<handles, origin, store, nextUnique, last>>

Handles  == 1..MaxHandles
NoHandle == "no pasteboard"
NoOrigin == [ctor |-> "none", name |-> ""]
Unit     == <<"()">>

(* -------------------------------------------- types.rs (not under src/)  *)
PasteboardType == {"String", "HTML", "URL"}

PasteboardType_into(copy_type) ==
    CASE copy_type = "String"  -> "public.utf8-plain-text"
      [] copy_type = "HTML"    -> "public.html"
      [] copy_type = "URL"     -> "public.url"

PasteboardName == {"General", "Drag"}

PasteboardName_into(name) ==
    CASE name = "General" -> "Apple CFPasteboard general"
      [] name = "Drag"    -> "Apple CFPasteboard drag"

(* --------------------------------------- foundation (not under src/)     *)
\* NSString::new(s): an NSString holding the UTF-8 contents of s.
NSString_new(s) == [utf8 |-> s]

\* NSURL::with_str(s): the wrapper of the NSURL object made from string s.
NSURL_with_str(s) == [objc |-> [class |-> "NSURL", absoluteString |-> s]]

\* NSURL::retain(obj): the wrapper of an NSURL object received from Cocoa.
NSURL_retain(obj) == [objc |-> obj]

(* ------------------------------------------------- the pasteboard server *)
nil == <<"nil">>
NSArray(objs) == <<"NSArray", objs>>

\* [NSPasteboard generalPasteboard]
generalPasteboard == PasteboardName_into("General")

\* [NSPasteboard pasteboardWithName:]
pasteboardWithName(name) == name.utf8

\* [NSPasteboard pasteboardWithUniqueName]; n counts the names given out.
pasteboardWithUniqueName(n) == "Apple CFPasteboard unique-" \o ToString(n + 1)

UniqueNames == {pasteboardWithUniqueName(n) : n \in 0..(MaxUnique - 1)}
ServerNames == {PasteboardName_into(n) : n \in PasteboardName} \cup UniqueNames

\* [pb setString:forType:] sets the representation of the type on the first
\* item of the pasteboard (the item is made when the pasteboard has none).
setString_forType(items, contents, ptype) ==
    IF items = <<>>
    THEN << (ptype.utf8 :> contents.utf8) >>
    ELSE [items EXCEPT ![1] = (ptype.utf8 :> contents.utf8) @@ @]

\* An NSURL writes itself to a pasteboard item as a file URL.
NSURL_pasteboardItem(obj) == ("public.file-url" :> obj.absoluteString)

\* [pb writeObjects:] adds one item per object, after the items already there.
writeObjects(items, objects) ==
    items \o [i \in 1..Len(objects) |-> NSURL_pasteboardItem(objects[i])]

\* [pb clearContents]
clearContents(items) == <<>>

\* [pb readObjectsForClasses:@[NSURL] options:nil]: one NSURL per item that
\* holds a representation NSURL reads, in item order; nil on a server fault.
\* The options are nil, so the URLs are not restricted to file URLs.  No
\* NSURL is made of an empty string, and of two representations the file URL
\* is taken.
NSURL_readableTypes == <<"public.file-url", "public.url">>

NSURL_readsType(item, t) ==
    /\ NSURL_readableTypes[t] \in DOMAIN item
    /\ item[NSURL_readableTypes[t]] # ""

NSURL_readable(item) ==
    \E t \in 1..Len(NSURL_readableTypes) : NSURL_readsType(item, t)

NSURL_fromItem(item) ==
    LET t == CHOOSE t \in 1..Len(NSURL_readableTypes) :
                /\ NSURL_readsType(item, t)
                /\ \A u \in 1..(t - 1) : ~NSURL_readsType(item, u)
    IN  [class |-> "NSURL", absoluteString |-> item[NSURL_readableTypes[t]]]

RECURSIVE readURLs(_)
readURLs(items) ==
    IF items = <<>> THEN <<>>
    ELSE LET rest == readURLs(Tail(items))
         IN  IF NSURL_readable(Head(items))
             THEN <<NSURL_fromItem(Head(items))>> \o rest
             ELSE rest

readObjectsForClasses(items, fault) ==
    IF fault THEN nil ELSE NSArray(readURLs(items))

(* ------------------------------------------------------- crate::error    *)
Ok(v)  == <<"Ok", v>>
Err(e) == <<"Err", e>>

PasteboardServerError ==
    [code |-> 666,
     domain |-> "com.cacao-rs.pasteboard",
     description |-> "Pasteboard server returned no data."]

(* ------------------------------------------- the methods of Pasteboard   *)
\* Each method is given as the effect of its message sends on the items of
\* the pasteboard the handle is bound to.

Pasteboard_default == generalPasteboard

\* named() that drops its argument and asks for the general pasteboard.
named_general(name) == generalPasteboard

\* named() that asks for a pasteboard of its own, under a fresh name.
named_unique(name) ==
    pasteboardWithUniqueName(Cardinality({h \in Handles : handles[h] # NoHandle}))

named(name) == pasteboardWithName(NSString_new(PasteboardName_into(name)))

\* unique() that asks for the general pasteboard, as default() does.
unique_general(n) == generalPasteboard

unique(n) == pasteboardWithUniqueName(n)

\* copy_text that sends the HTML type in place of the string type.
copy_text_html(items, text) ==
    setString_forType(items, NSString_new(text),
                      NSString_new(PasteboardType_into("HTML")))

copy_text(items, text) ==
    LET contents == NSString_new(text)
        ptype    == NSString_new(PasteboardType_into("String"))
    IN  setString_forType(items, contents, ptype)

\* copy_clipboard that clears the pasteboard before it sets the string.
copy_clipboard_clearing(items, target, copy_type) ==
    setString_forType(clearContents(items), NSString_new(target),
                      NSString_new(PasteboardType_into(copy_type)))

copy_clipboard(items, target, copy_type) ==
    LET contents == NSString_new(target)
        ptype    == NSString_new(PasteboardType_into(copy_type))
    IN  setString_forType(items, contents, ptype)

\* copy_files that leaves out the "file://" prefix.
copy_files_bare(items, file_urls) ==
    writeObjects(items,
        [i \in 1..Len(file_urls) |-> NSURL_with_str(file_urls[i]).objc])

copy_files(items, file_urls) ==
    LET fmt_file_urls == [i \in 1..Len(file_urls) |-> "file://" \o file_urls[i]]
        file_vec == [i \in 1..Len(file_urls) |-> NSURL_with_str(fmt_file_urls[i]).objc]
    IN  writeObjects(items, file_vec)

release_globally(items) == items

\* clear_contents that sends releaseGlobally in place of clearContents.
clear_contents_release(items) == items

clear_contents(items) == clearContents(items)

\* get_file_urls that takes the null result for an empty pasteboard.
get_file_urls_result_swallow(contents) ==
    IF contents = nil
    THEN Ok(<<>>)
    ELSE Ok([i \in 1..Len(contents[2]) |-> NSURL_retain(contents[2][i])])

\* get_file_urls that clears the pasteboard once it has read it.
get_file_urls_items_consume(items) == clearContents(items)

\* get_file_urls gives the result and the items it leaves on the pasteboard.
get_file_urls_result(contents) ==
    IF contents = nil
    THEN Err(PasteboardServerError)
    ELSE Ok([i \in 1..Len(contents[2]) |-> NSURL_retain(contents[2][i])])

get_file_urls_items(items) == items

Call(op, h, text, kind, paths, raw, result) ==
    [op |-> op, h |-> h, text |-> text, kind |-> kind, paths |-> paths,
     raw |-> raw, result |-> result]

Live(h) == handles[h] # NoHandle

\* Handles are numbered in the order they are constructed.
Fresh(h) == ~Live(h) /\ \A g \in 1..(h - 1) : Live(g)

Init ==
    /\ handles = [h \in Handles |-> NoHandle]
    /\ origin = [h \in Handles |-> NoOrigin]
    /\ store = [n \in ServerNames |-> <<>>]
    /\ nextUnique = 0
    /\ last = Call("init", 0, "", "", <<>>, Unit, Unit)

(* ------------------------------------------------------------ constructors *)
Default(h) ==
    /\ Fresh(h)
    /\ handles' = [handles EXCEPT ![h] = Pasteboard_default]
    /\ origin' = [origin EXCEPT ![h] = [ctor |-> "default", name |-> ""]]
    /\ last' = Call("default", h, "", "", <<>>, Unit, Unit)
    /\ UNCHANGED <<store, nextUnique>>

Named(h, name) ==
    /\ Fresh(h)
    /\ handles' = [handles EXCEPT ![h] = named(name)]
    /\ origin' = [origin EXCEPT ![h] = [ctor |-> "named", name |-> name]]
    /\ last' = Call("named", h, "", "", <<>>, Unit, Unit)
    /\ UNCHANGED <<store, nextUnique>>

Unique(h) ==
    /\ Fresh(h)
    /\ nextUnique < MaxUnique
    /\ handles' = [handles EXCEPT ![h] = unique(nextUnique)]
    /\ origin' = [origin EXCEPT ![h] = [ctor |-> "unique", name |-> ""]]
    /\ nextUnique' = nextUnique + 1
    /\ last' = Call("unique", h, "", "", <<>>, Unit, Unit)
    /\ UNCHANGED store

(* ------------------------------------------------------------- operations *)
CopyText(h, text) ==
    /\ Live(h)
    /\ store' = [store EXCEPT ![handles[h]] = copy_text(@, text)]
    /\ last' = Call("copy_text", h, text, "String", <<>>, Unit, Unit)
    /\ UNCHANGED <<handles, origin, nextUnique>>

CopyClipboard(h, target, copy_type) ==
    /\ Live(h)
    /\ store' = [store EXCEPT ![handles[h]] = copy_clipboard(@, target, copy_type)]
    /\ last' = Call("copy_clipboard", h, target, copy_type, <<>>, Unit, Unit)
    /\ UNCHANGED <<handles, origin, nextUnique>>

CopyFiles(h, file_urls) ==
    /\ Live(h)
    /\ store' = [store EXCEPT ![handles[h]] = copy_files(@, file_urls)]
    /\ last' = Call("copy_files", h, "", "", file_urls, Unit, Unit)
    /\ UNCHANGED <<handles, origin, nextUnique>>

ReleaseGlobally(h) ==
    /\ Live(h)
    /\ store' = [store EXCEPT ![handles[h]] = release_globally(@)]
    /\ last' = Call("release_globally", h, "", "", <<>>, Unit, Unit)
    /\ UNCHANGED <<handles, origin, nextUnique>>

ClearContents(h) ==
    /\ Live(h)
    /\ store' = [store EXCEPT ![handles[h]] = clear_contents(@)]
    /\ last' = Call("clear_contents", h, "", "", <<>>, Unit, Unit)
    /\ UNCHANGED <<handles, origin, nextUnique>>

GetFileUrls(h, fault) ==
    /\ Live(h)
    /\ LET contents == readObjectsForClasses(store[handles[h]], fault)
       IN  last' = Call("get_file_urls", h, "", "", <<>>, contents,
                        get_file_urls_result(contents))
    /\ store' = [store EXCEPT ![handles[h]] = get_file_urls_items(@)]
    /\ UNCHANGED <<handles, origin, nextUnique>>

(* --------------------------------------------------------- specifications *)
\* The pasteboard behind h keeps to `most` items when file_urls are added.
Room(h, file_urls, most) ==
    Live(h) /\ Len(store[handles[h]]) + Len(file_urls) <= most

\* Spec: one handle, made by any constructor; every operation, all inputs.
Next ==
    \/ Default(1)
    \/ \E name \in PasteboardName : Named(1, name)
    \/ Unique(1)
    \/ \E text \in Texts : CopyText(1, text)
    \/ \E target \in Texts, copy_type \in PasteboardType :
          CopyClipboard(1, target, copy_type)
    \/ \E file_urls \in PathLists :
          /\ Room(1, file_urls, MaxItems)
          /\ CopyFiles(1, file_urls)
    \/ ReleaseGlobally(1)
    \/ ClearContents(1)
    \/ \E fault \in BOOLEAN : GetFileUrls(1, fault)

Spec == Init /\ [][Next]_vars

\* SpecShared: several handles, made by every constructor, over several
\* pasteboards, with one input per operation.
SharedText  == "x"
SharedFiles == <<"/tmp/a.txt">>
SharedTarget == "y"
SharedType   == "String"

NextShared ==
    \/ \E h \in Handles : Default(h)
    \/ \E h \in Handles, name \in PasteboardName : Named(h, name)
    \/ \E h \in Handles : Unique(h)
    \/ \E h \in Handles : CopyText(h, SharedText)
    \/ \E h \in Handles : CopyClipboard(h, SharedTarget, SharedType)
    \/ \E h \in Handles :
          /\ Room(h, SharedFiles, MaxSharedItems)
          /\ CopyFiles(h, SharedFiles)
    \/ \E h \in Handles : ReleaseGlobally(h)
    \/ \E h \in Handles : ClearContents(h)
    \/ \E h \in Handles, fault \in BOOLEAN : GetFileUrls(h, fault)

SpecShared == Init /\ [][NextShared]_vars

(* ------------------------------------------------- reading the pasteboard *)
Items(h) == store[handles[h]]

\* What get_file_urls returns on the given items when the server answers.
FaultFreeRead(items) == get_file_urls_result(readObjectsForClasses(items, FALSE))

\* The URL strings of a successful result.
UrlStrings(result) == [i \in 1..Len(result[2]) |-> result[2][i].objc.absoluteString]

\* The file URLs copy_files is to write for a list of paths.
FileUrlsOf(paths) == [i \in 1..Len(paths) |-> "file://" \o paths[i]]

\* The value the pasteboard gives for a type identifier: that of the first
\* item holding the type.
HasType(items, ptype) == \E i \in 1..Len(items) : ptype \in DOMAIN items[i]
ValueForType(items, ptype) ==
    items[CHOOSE i \in 1..Len(items) :
            /\ ptype \in DOMAIN items[i]
            /\ \A j \in 1..(i - 1) : ptype \notin DOMAIN items[j]][ptype]

\* The representation of a type on the i-th item, if there is one.
Representation(items, i, ptype) ==
    IF i <= Len(items) /\ ptype \in DOMAIN items[i]
    THEN <<"value", items[i][ptype]>>
    ELSE <<"absent">>

TypeIds  == {PasteboardType_into(k) : k \in PasteboardType} \cup {"public.file-url"}
WriteOps == {"copy_text", "copy_clipboard", "copy_files", "clear_contents"}
StringId == "public.utf8-plain-text"

(* ----------------------------------------------------------------- claims *)

\* [url isFileURL]: the scheme of the URL is "file".
IsFileURL(url) == Len(url) >= 5 /\ SubSeq(url, 1, 5) = "file:"

\* C1 (as claimed): get_file_urls returns the PasteboardServerError (code
\* 666, domain "com.cacao-rs.pasteboard", description "Pasteboard server
\* returned no data.") exactly when the read call returned the null sentinel,
\* and a successful empty sequence when the list it returned is non-null and
\* holds no file URL.
C1_ErrorIffNull ==
    last.op = "get_file_urls" =>
        /\ (last.result = Err(PasteboardServerError)) <=> (last.raw = nil)
        /\ (last.raw = nil) => (last.result[1] = "Err")
        /\ ( /\ last.raw # nil
             /\ \A i \in 1..Len(last.raw[2]) :
                    ~IsFileURL(last.raw[2][i].absoluteString) ) =>
              last.result = Ok(<<>>)

\* C2: copy_files(P) on an empty pasteboard makes a fault-free get_file_urls
\* return Ok with the URLs "file://" + P[i], as many as P and in P's order
\* (Ok(<<>>) for the empty P); and a fault-free get_file_urls returns just
\* that reading of the pasteboard.
C2_FilesRoundTrip ==
    [][ /\ (last'.op = "copy_files" /\ Items(last'.h) = <<>>) =>
              LET r == FaultFreeRead(store'[handles[last'.h]])
              IN  /\ r[1] = "Ok"
                  /\ Len(r[2]) = Len(last'.paths)
                  /\ UrlStrings(r) = FileUrlsOf(last'.paths)
        /\ (last'.op = "get_file_urls" /\ last'.raw # nil
              /\ last.op = "copy_files" /\ last.h = last'.h
              /\ Len(Items(last.h)) = Len(last.paths)) =>
              /\ last'.result[1] = "Ok"
              /\ UrlStrings(last'.result) = FileUrlsOf(last.paths)
      ]_vars

\* copy_files has written two paths to a pasteboard that was empty.
C2_Witness ==
    /\ last.op = "copy_files"
    /\ last.paths = <<"/tmp/a.txt", "/tmp/b.txt">>
    /\ Len(Items(last.h)) = 2
    /\ UrlStrings(FaultFreeRead(Items(last.h)))
          = <<"file:///tmp/a.txt", "file:///tmp/b.txt">>

\* C3 (as claimed): after copy_files(P) the pasteboard holds the URLs of P
\* and nothing that was written before the call.
C3_CopyFilesReplaces ==
    last.op = "copy_files" =>
        /\ UrlStrings(FaultFreeRead(Items(last.h))) = FileUrlsOf(last.paths)
        /\ Items(last.h) = copy_files(<<>>, last.paths)

\* C4: a write through a handle from named(A) leaves what a handle from
\* named(B) reads as it was, for names A # B.
C4_NamedIsolation ==
    [][ \A h, g \in Handles :
          ( /\ last'.op \in WriteOps
            /\ last'.h = h
            /\ origin[h].ctor = "named"
            /\ origin[g].ctor = "named"
            /\ origin[h].name # origin[g].name ) =>
              /\ store'[handles[g]] = store[handles[g]]
              /\ FaultFreeRead(store'[handles[g]]) = FaultFreeRead(store[handles[g]])
      ]_vars

\* A write through one named handle has left content that the handle of the
\* other name does not see.
C4_Witness ==
    \E h, g \in Handles :
        /\ origin[h].ctor = "named"
        /\ origin[g].ctor = "named"
        /\ origin[h].name # origin[g].name
        /\ last.op \in WriteOps
        /\ last.h = h
        /\ Items(h) # <<>>
        /\ Items(g) = <<>>

\* Two handles of one name: two default() calls, or two named(N) calls.
SameName(h, g) ==
    /\ origin[h].ctor \in {"default", "named"}
    /\ origin[g] = origin[h]

\* C5: handles of one name read the same contents at every moment, and what
\* the last write through one of them stored is what the other reads.
C5_SharedStore ==
    \A h, g \in Handles :
        SameName(h, g) =>
            /\ Items(g) = Items(h)
            /\ FaultFreeRead(Items(g)) = FaultFreeRead(Items(h))
            /\ (last.op = "copy_text" /\ last.h = h) =>
                  /\ HasType(Items(g), StringId)
                  /\ ValueForType(Items(g), StringId) = last.text
            /\ (last.op = "copy_clipboard" /\ last.h = h) =>
                  /\ HasType(Items(g), PasteboardType_into(last.kind))
                  /\ ValueForType(Items(g), PasteboardType_into(last.kind)) = last.text
            /\ (last.op = "copy_files" /\ last.h = h) =>
                  LET urls == UrlStrings(FaultFreeRead(Items(g)))
                      n    == Len(last.paths)
                  IN  /\ Len(urls) >= n
                      /\ SubSeq(urls, Len(urls) - n + 1, Len(urls)) = FileUrlsOf(last.paths)
            /\ (last.op = "clear_contents" /\ last.h = h) => Items(g) = <<>>
            /\ (last.op = "get_file_urls" /\ last.h = h /\ last.raw # nil) =>
                  last.result = FaultFreeRead(Items(g))

\* Text was written through one of two handles of one name.
C5_Witness ==
    \E h, g \in Handles :
        /\ h # g
        /\ SameName(h, g)
        /\ last.op = "copy_text"
        /\ last.h = h
        /\ ValueForType(Items(g), StringId) = last.text

\* C6: a handle from unique() wraps a pasteboard no other live handle wraps,
\* and a write through it leaves what every other handle reads as it was.
C6_UniqueDistinct ==
    [][ \A h, g \in Handles :
          (h # g /\ origin'[h].ctor = "unique" /\ origin'[g].ctor # "none") =>
              /\ handles'[h] # handles'[g]
              /\ (last'.op \in WriteOps /\ last'.h = h /\ origin[g].ctor # "none") =>
                    store'[handles[g]] = store[handles[g]]
      ]_vars

\* Content written through one of two unique() handles is absent on the other.
C6_Witness ==
    \E h, g \in Handles :
        /\ h # g
        /\ origin[h].ctor = "unique"
        /\ origin[g].ctor = "unique"
        /\ last.op \in WriteOps
        /\ last.h = h
        /\ Items(h) # <<>>
        /\ Items(g) = <<>>

\* C7: after clear_contents, the first call or a repeated one, the pasteboard
\* holds no value of any type and a fault-free get_file_urls gives Ok(<<>>).
C7_ClearEmpties ==
    /\ last.op = "clear_contents" =>
          /\ Items(last.h) = <<>>
          /\ \A ptype \in TypeIds : ~HasType(Items(last.h), ptype)
          /\ FaultFreeRead(Items(last.h)) = Ok(<<>>)
    /\ \A h \in Handles :
          (handles[h] # NoHandle /\ Items(h) # <<>>) =>
              /\ clear_contents(Items(h)) = <<>>
              /\ clear_contents(clear_contents(Items(h))) = clear_contents(Items(h))

\* clear_contents has run and a read of the pasteboard finds nothing.
C7_Witness ==
    /\ last.op = "clear_contents"
    /\ Items(last.h) = <<>>
    /\ FaultFreeRead(Items(last.h)) = Ok(<<>>)

\* C8: after copy_text(T) the pasteboard's value for the plain-string type is
\* T, whatever it was before; T may be the empty string.
C8_TextRoundTrip ==
    last.op = "copy_text" =>
        /\ HasType(Items(last.h), StringId)
        /\ ValueForType(Items(last.h), StringId) = last.text
        /\ Representation(Items(last.h), 1, StringId) = <<"value", last.text>>

\* The empty string was copied to a pasteboard that holds other content too.
C8_Witness ==
    /\ last.op = "copy_text"
    /\ last.text = ""
    /\ ValueForType(Items(last.h), StringId) = ""
    /\ Len(Items(last.h)) = 2
    /\ HasType(Items(last.h), "public.html")

\* C9: copy_text(v) leaves the pasteboard as copy_clipboard(v, String) would
\* and the reverse; copy_clipboard(v, K) changes no representation of any
\* type but K, on no item, and no other pasteboard.
C9_ClipboardGeneralisesText ==
    [][ /\ (last'.op = "copy_text") =>
              store' = [store EXCEPT ![handles[last'.h]] =
                            copy_clipboard(@, last'.text, "String")]
        /\ (last'.op = "copy_clipboard" /\ last'.kind = "String") =>
              store' = [store EXCEPT ![handles[last'.h]] = copy_text(@, last'.text)]
        /\ (last'.op = "copy_clipboard") =>
              /\ \A i \in 1..(MaxItems + 1) :
                 \A ptype \in TypeIds \ {PasteboardType_into(last'.kind)} :
                    Representation(store'[handles[last'.h]], i, ptype)
                        = Representation(store[handles[last'.h]], i, ptype)
              /\ Representation(store'[handles[last'.h]], 1,
                                PasteboardType_into(last'.kind))
                    = <<"value", last'.text>>
              /\ Len(store'[handles[last'.h]]) = IF Items(last'.h) = <<>> THEN 1
                                                 ELSE Len(Items(last'.h))
              /\ \A n \in ServerNames \ {handles[last'.h]} : store'[n] = store[n]
      ]_vars

\* copy_clipboard wrote a string-typed value next to an HTML value.
C9_Witness ==
    /\ last.op = "copy_clipboard"
    /\ last.kind = "String"
    /\ Representation(Items(last.h), 1, StringId) = <<"value", last.text>>
    /\ HasType(Items(last.h), "public.html")

\* C10: get_file_urls changes no pasteboard, whether it returns Ok or the
\* error; two fault-free calls on one pasteboard with no call between them
\* return the same sequence.
C10_ReadOnly ==
    [][ (last'.op = "get_file_urls") =>
          /\ store' = store
          /\ handles' = handles
          /\ ( /\ last.op = "get_file_urls"
               /\ handles[last.h] = handles[last'.h]
               /\ last.raw # nil
               /\ last'.raw # nil ) => last'.result = last.result
      ]_vars

\* A faulted read left the file URL on the pasteboard.
C10_Witness ==
    /\ last.op = "get_file_urls"
    /\ last.result[1] = "Err"
    /\ UrlStrings(FaultFreeRead(Items(last.h))) = <<"file:///tmp/a.txt">>

TypeOK ==
    /\ handles \in [Handles -> ServerNames \cup {NoHandle}]
    /\ nextUnique \in 0..MaxUnique
    /\ \A n \in ServerNames : Len(store[n]) <= MaxItems + MaxSharedItems
====
